---- MODULE Spec2Model ----
(***************************************************************************)
(* Model of perlur's image pipeline (src/src/process.rs; src/src/main.rs   *)
(* is the earlier single-file variant with the same bodies):               *)
(*   create_beads : downscale, then quantize every pixel against a palette *)
(*   output       : flat nearest-neighbour upscale, or show_pearls         *)
(*   show_pearls  : tiled multiply compositing against the texture tile    *)
(*   mul_rgba, distance_rgb, distance_lab : the pure helpers               *)
(***************************************************************************)
EXTENDS Integers, Sequences, FiniteSets, TLC

VARIABLES
    pc,              \* position of the call being modelled
    img_w, img_h,    \* dimensions of the decoded source image (create_beads)
    pixels_pr_bead,  \* density factor argument
    palette,         \* sequence of <<name, colour>> (the palette slice)
    distance,        \* DistanceMeasure: "Rgb" or "Lab"
    labTable,        \* the lab crate's Lab::from_rgb, as a function of the colour
    width, height,   \* dimensions of the downscaled grid
    img,             \* pixels of the grid already visited by pixels_mut, in order
    frequency,       \* BTreeMap<&str, u32>: a function from its keys to counts
    p,               \* the pixel value read by the last closure call (*p on entry)
    opaque,          \* history: number of visited pixels read with alpha >= 128
    beads,           \* the RgbaImage handed to output
    output_scale,    \* Option<u32>: <<>> is None, <<s>> is Some(s)
    perla,           \* the texture tile opened by show_pearls
    out,             \* the raster handed to save
    fa, fb, fres     \* arguments and result of a pure helper call

vars == <<pc, img_w, img_h, pixels_pr_bead, palette, distance, labTable, width,
          height, img, frequency, p, opaque, beads, output_scale, perla, out,
          fa, fb, fres>>

---------------------------------------------------------------------------
(* Bounds of the model *)
MaxSrcPixels == 3
MaxDensity == 2
MaxPalette == 2
MaxGrid == 2
MaxTile == 2
MaxScale == 2

(* Program constants *)
AlphaThreshold == 128

U8 == 0..255
U16Mod == 65536
U8Mod == 256

---------------------------------------------------------------------------
(* Colours and pixels.  Rgb<u8> is <<r,g,b>>, Rgba<u8> is <<r,g,b,a>>. *)
Red == <<255, 0, 0>>
Blue == <<0, 0, 255>>
Mid == <<128, 0, 128>>      \* equidistant from Red and Blue in RGB

PaletteColours == {Red, Blue}
TargetColours == {Red, Mid}
Colours == PaletteColours \cup TargetColours
Names == {"a", "b"}
Alphas == {0, 127, 128, 255}
Pixels == {<<c[1], c[2], c[3], a>> : c \in TargetColours, a \in Alphas}

PaletteEntries == Names \X PaletteColours
Palettes == UNION {[1..n -> PaletteEntries] : n \in 0..MaxPalette}

(* Values Lab::from_rgb may return: <<l, a, b>>, integer-valued floats.     *)
LabVals == {<<0, 0, 0>>, <<50, 20, -30>>, <<50, -30, 20>>}

NoRaster == [w |-> 0, h |-> 0, px |-> <<>>]

---------------------------------------------------------------------------
(* distance_rgb: per channel d = a as f32 - b as f32; d * d; summed.  Every *)
(* intermediate value is an integer below 2^24, so f32 computes it exactly. *)
sq_diff_u8(a, b) == ((a - b) % U8Mod) * ((a - b) % U8Mod)

sq_diff(a, b) == (a - b) * (a - b)

distance_rgb(a, b) == sq_diff(a[1], b[1]) + sq_diff(a[2], b[2]) + sq_diff(a[3], b[3])

from_rgb(c) == labTable[c]

squared_distance(x, y) == sq_diff(x[1], y[1]) + sq_diff(x[2], y[2]) + sq_diff(x[3], y[3])

distance_lab(a, b) == squared_distance(from_rgb(a), from_rgb(b))

Distance(a, b) == IF distance = "Lab" THEN distance_lab(a, b) ELSE distance_rgb(a, b)

---------------------------------------------------------------------------
(* The palette scan of create_beads.  best_dist starts at f32::INFINITY,    *)
(* modelled by the flag inf.                                                *)
ScanInit_white(target) ==
    [colour |-> <<255, 255, 255>>, inf |-> TRUE, best_dist |-> 0, chosen_name |-> ""]

ScanInit(target) ==
    [colour |-> target, inf |-> TRUE, best_dist |-> 0, chosen_name |-> ""]

IsBetter_or_equal(dist, st) == st.inf \/ dist <= st.best_dist

IsBetter(dist, st) == st.inf \/ dist < st.best_dist

ScanStep(st, entry, target) ==
    LET dist == Distance(entry[2], target)
    IN  IF IsBetter(dist, st)
        THEN [colour |-> entry[2], inf |-> FALSE, best_dist |-> dist,
              chosen_name |-> entry[1]]
        ELSE st

RECURSIVE ScanFrom(_, _, _)
ScanFrom(st, k, target) ==
    IF k > Len(palette) THEN st
    ELSE ScanFrom(ScanStep(st, palette[k], target), k + 1, target)

Scan(target) == ScanFrom(ScanInit(target), 1, target)

is_transparent_off_by_one(q) == q[4] < AlphaThreshold - 1

is_transparent(q) == q[4] < AlphaThreshold

to_rgba(c) == <<c[1], c[2], c[3], 255>>

Sentinel == <<255, 255, 255, 0>>

Bump_insert_only(f, name) ==
    IF name \in DOMAIN f THEN [f EXCEPT ![name] = @ + 1]
    ELSE f @@ (name :> 0)

(* *frequency.entry(name).or_insert(0u32) += 1 *)
Bump(f, name) ==
    IF name \in DOMAIN f THEN [f EXCEPT ![name] = @ + 1]
    ELSE f @@ (name :> 1)

(* The closure of pixels_mut().for_each on a pixel read as q. *)
NewPixel(q) ==
    IF is_transparent(q) THEN Sentinel
    ELSE to_rgba(Scan(<<q[1], q[2], q[3]>>).colour)

NewFrequency(q) ==
    IF is_transparent(q) THEN frequency
    ELSE Bump(frequency, Scan(<<q[1], q[2], q[3]>>).chosen_name)

---------------------------------------------------------------------------
(* create_beads *)
OutputIdle ==
    /\ beads = NoRaster /\ output_scale = <<>> /\ perla = NoRaster /\ out = NoRaster

FnIdle == fa = <<>> /\ fb = <<>> /\ fres = <<>>

SrcDims == {d \in (1..MaxSrcPixels) \X (1..MaxSrcPixels) : d[1] * d[2] <= MaxSrcPixels}

Init ==
    /\ pc = "start"
    /\ \E d \in SrcDims : img_w = d[1] /\ img_h = d[2]
    /\ pixels_pr_bead \in 0..MaxDensity
    /\ palette \in Palettes
    /\ distance \in {"Rgb", "Lab"}
    /\ IF distance = "Lab" THEN labTable \in [Colours -> LabVals]
       ELSE labTable = [c \in Colours |-> <<0, 0, 0>>]
    /\ width = 0 /\ height = 0
    /\ img = <<>>
    /\ frequency = <<>>
    /\ p = Sentinel
    /\ opaque = 0
    /\ OutputIdle
    /\ FnIdle

(* image::open(img_path).unwrap() on an unreadable file *)
OpenImageFails ==
    /\ pc = "start"
    /\ pc' = "open_failed"
    /\ UNCHANGED <<img_w, img_h, pixels_pr_bead, palette, distance, labTable, width,
                   height, img, frequency, p, opaque, beads, output_scale, perla,
                   out, fa, fb, fres>>

(* width = img.width() / pixels_pr_bead; resize_exact(width, height, filter) *)
(* The division panics on a zero divisor.  Nothing tests width or height:   *)
(* resize_exact is handed them as they are, and a zero yields a raster with *)
(* no pixels.                                                               *)
Resize ==
    /\ pc = "start"
    /\ IF pixels_pr_bead = 0
       THEN /\ pc' = "div_by_zero"
            /\ UNCHANGED <<width, height>>
       ELSE /\ width' = img_w \div pixels_pr_bead
            /\ height' = img_h \div pixels_pr_bead
            /\ pc' = "quantize"
    /\ UNCHANGED <<img_w, img_h, pixels_pr_bead, palette, distance, labTable,
                   img, frequency, p, opaque, beads, output_scale, perla,
                   out, fa, fb, fres>>

(* One call of the for_each closure, on the next pixel of the grid.  The    *)
(* pixel's value q is whatever the resampling filter produced.              *)
QuantizePixel ==
    /\ pc = "quantize"
    /\ Len(img) < width * height
    /\ \E q \in Pixels :
        /\ p' = q
        /\ img' = Append(img, NewPixel(q))
        /\ frequency' = NewFrequency(q)
        /\ opaque' = IF q[4] >= 128 THEN opaque + 1 ELSE opaque
    /\ UNCHANGED <<pc, img_w, img_h, pixels_pr_bead, palette, distance, labTable,
                   width, height, beads, output_scale, perla, out, fa, fb, fres>>

(* (frequency, img) is returned once every pixel has been visited *)
Return ==
    /\ pc = "quantize"
    /\ Len(img) = width * height
    /\ pc' = "returned"
    /\ UNCHANGED <<img_w, img_h, pixels_pr_bead, palette, distance, labTable, width,
                   height, img, frequency, p, opaque, beads, output_scale, perla,
                   out, fa, fb, fres>>

Next == OpenImageFails \/ Resize \/ QuantizePixel \/ Return

Spec == Init /\ [][Next]_vars

---------------------------------------------------------------------------
(* Rasters: [w, h, px] with px a function of <<x, y>>, 0 <= x < w, 0 <= y < h *)
Positions(w, h) == (0..(w - 1)) \X (0..(h - 1))

(* Grids as create_beads returns them: every cell is the sentinel or an     *)
(* opaque colour.  "coords" gives every cell a colour of its own.           *)
GridCell(pattern, x, y) ==
    IF pattern = "coords" THEN <<10 + x, 20 + y, 200, 255>>
    ELSE IF (x + y) % 2 = 0 THEN Sentinel ELSE to_rgba(Red)

Grids ==
    {[w |-> w, h |-> h, px |-> [c \in Positions(w, h) |-> GridCell(pat, c[1], c[2])]] :
        w \in 0..MaxGrid, h \in 0..MaxGrid, pat \in {"coords", "checker"}}

(* Texture tiles: "white" is the identity of the multiply blend. *)
TileCell(pattern, x, y) ==
    IF pattern = "white" THEN <<255, 255, 255, 255>>
    ELSE <<255 - 40 * x, 200 - 40 * y, 128, 255 - x - 2 * y>>

Tiles ==
    {[w |-> w, h |-> h, px |-> [c \in Positions(w, h) |-> TileCell(pat, c[1], c[2])]] :
        w \in 1..MaxTile, h \in 1..MaxTile, pat \in {"white", "shaded"}}

Scales == {<<>>} \cup {<<s>> : s \in 0..MaxScale}

---------------------------------------------------------------------------
(* mul_rgba: per channel ((a as u16 * b as u16) / 255) as u8 *)
mul_channel_u8(x, y) == (((x * y) % U8Mod) \div 255) % U8Mod

mul_channel(x, y) == (((x * y) % U16Mod) \div 255) % U8Mod

mul_rgba(a, b) == [i \in 1..4 |-> mul_channel(a[i], b[i])]

---------------------------------------------------------------------------
(* output, flat mode: imageops::resize(&beads, w * s, h * s, Nearest).  The *)
(* nearest filter takes, per axis, the source index floor((o + 0.5) * n/nn) *)
(* clamped to the source.                                                   *)
nearest_index(o, n, nn) ==
    LET i == ((2 * o + 1) * n) \div (2 * nn)
    IN  IF i > n - 1 THEN n - 1 ELSE i

resize_nearest(b, nw, nh) ==
    [w |-> nw, h |-> nh,
     px |-> [c \in Positions(nw, nh) |->
               b.px[<<nearest_index(c[1], b.w, nw), nearest_index(c[2], b.h, nh)>>]]]

flat_height_as_width(b, s) == b.w * s

flat_width(b, s) == b.w * s

flat_height(b, s) == b.h * s

(* show_pearls: the closure of from_par_fn at output position (x, y) *)
pearl_read(x, y, pw, ph) ==
    [ox |-> x \div pw, px |-> x % pw, oy |-> y \div pw, py |-> y % pw]

(* get_pixel panics on an index outside the image *)
read_in_bounds(r, b, t) == r.px < t.w /\ r.py < t.h /\ r.ox < b.w /\ r.oy < b.h

pearl_pixel(r, b, t) == mul_rgba(b.px[<<r.ox, r.oy>>], t.px[<<r.px, r.py>>])

BeadsIdle ==
    /\ img_w = 0 /\ img_h = 0 /\ pixels_pr_bead = 1 /\ palette = <<>>
    /\ width = 0 /\ height = 0 /\ img = <<>> /\ frequency = <<>>
    /\ p = Sentinel /\ opaque = 0

InitOut ==
    /\ pc = "output"
    /\ beads \in Grids
    /\ output_scale \in Scales
    /\ perla = NoRaster
    /\ out = NoRaster
    /\ distance = "Rgb" /\ labTable = <<>>
    /\ BeadsIdle
    /\ FnIdle

(* output with Some(output_scale): resize and save *)
output_flat ==
    /\ pc = "output"
    /\ output_scale # <<>>
    /\ out' = resize_nearest(beads, flat_width(beads, output_scale[1]),
                              flat_height(beads, output_scale[1]))
    /\ pc' = "saved"
    /\ UNCHANGED <<img_w, img_h, pixels_pr_bead, palette, distance, labTable, width,
                   height, img, frequency, p, opaque, beads, output_scale, perla,
                   fa, fb, fres>>

(* output with None: show_pearls opens the tile and composites every        *)
(* position; a panicking get_pixel aborts the call before save.             *)
show_pearls ==
    /\ pc = "output"
    /\ output_scale = <<>>
    /\ \E t \in Tiles :
        LET ow == beads.w * t.w
            oh == beads.h * t.h
        IN  /\ perla' = t
            /\ IF \A c \in Positions(ow, oh) :
                     read_in_bounds(pearl_read(c[1], c[2], t.w, t.h), beads, t)
               THEN /\ out' = [w |-> ow, h |-> oh,
                               px |-> [c \in Positions(ow, oh) |->
                                   pearl_pixel(pearl_read(c[1], c[2], t.w, t.h), beads, t)]]
                    /\ pc' = "saved"
               ELSE /\ out' = out
                    /\ pc' = "out_of_bounds"
    /\ UNCHANGED <<img_w, img_h, pixels_pr_bead, palette, distance, labTable, width,
                   height, img, frequency, p, opaque, beads, output_scale,
                   fa, fb, fres>>

(* image::open(perla).unwrap() on an unreadable tile *)
show_pearls_open_fails ==
    /\ pc = "output"
    /\ output_scale = <<>>
    /\ pc' = "open_failed"
    /\ UNCHANGED <<img_w, img_h, pixels_pr_bead, palette, distance, labTable, width,
                   height, img, frequency, p, opaque, beads, output_scale, perla,
                   out, fa, fb, fres>>

NextOut == output_flat \/ show_pearls \/ show_pearls_open_fails

SpecOut == InitOut /\ [][NextOut]_vars

---------------------------------------------------------------------------
(* mul_rgba called on its own.  Every channel meets every pair of 8-bit     *)
(* values, and the four channels of a pixel differ from one another.        *)
MulArgs == {<<c, (c + 85) % 256, (c + 170) % 256, 255 - c>> : c \in U8}

InitMul ==
    /\ pc = "call_mul_rgba"
    /\ fa \in MulArgs
    /\ fb \in MulArgs
    /\ fres = <<>>
    /\ distance = "Rgb" /\ labTable = <<>>
    /\ BeadsIdle
    /\ OutputIdle

call_mul_rgba ==
    /\ pc = "call_mul_rgba"
    /\ fres' = mul_rgba(fa, fb)
    /\ pc' = "done"
    /\ UNCHANGED <<img_w, img_h, pixels_pr_bead, palette, distance, labTable, width,
                   height, img, frequency, p, opaque, beads, output_scale, perla,
                   out, fa, fb>>

NextMul == call_mul_rgba

SpecMul == InitMul /\ [][NextMul]_vars

---------------------------------------------------------------------------
(* The distance functions called on their own, on colours whose channels    *)
(* take the extreme and the middle 8-bit values.                            *)
ChannelSamples == {0, 127, 128, 255}
SampleColours == ChannelSamples \X ChannelSamples \X ChannelSamples

InitDist ==
    /\ pc = "call_distance"
    /\ fa \in SampleColours
    /\ fb \in SampleColours
    /\ fres = <<>>
    /\ distance \in {"Rgb", "Lab"}
    /\ IF distance = "Lab" THEN labTable \in [{fa, fb} -> LabVals]
       ELSE labTable = [c \in {fa, fb} |-> <<0, 0, 0>>]
    /\ BeadsIdle
    /\ OutputIdle

call_distance ==
    /\ pc = "call_distance"
    /\ fres' = [ab |-> Distance(fa, fb), ba |-> Distance(fb, fa), aa |-> Distance(fa, fa),
                bb |-> Distance(fb, fb)]
    /\ pc' = "done"
    /\ UNCHANGED <<img_w, img_h, pixels_pr_bead, palette, distance, labTable, width,
                   height, img, frequency, p, opaque, beads, output_scale, perla,
                   out, fa, fb>>

NextDist == call_distance

SpecDist == InitDist /\ [][NextDist]_vars

---------------------------------------------------------------------------
(* Properties of create_beads *)

Rgb3(q) == <<q[1], q[2], q[3]>>

Count(f, name) == IF name \in DOMAIN f THEN f[name] ELSE 0

RECURSIVE SumOver(_, _)
SumOver(f, keys) ==
    IF keys = {} THEN 0
    ELSE LET k == CHOOSE x \in keys : TRUE IN f[k] + SumOver(f, keys \ {k})

SumCounts(f) == SumOver(f, DOMAIN f)

(* A step of the for_each closure: one more pixel has been visited. *)
Visited == pc = "quantize" /\ Len(img') = Len(img) + 1

(* The smallest palette index whose distance to target is minimal. *)
FirstNearest(target) ==
    CHOOSE k \in 1..Len(palette) :
        /\ \A j \in 1..Len(palette) :
              Distance(palette[k][2], target) <= Distance(palette[j][2], target)
        /\ \A j \in 1..(k - 1) :
              Distance(palette[j][2], target) > Distance(palette[k][2], target)

(* C1: a cell read with alpha < 128 becomes exactly RGBA(255,255,255,0) and *)
(* leaves the frequency table as it was: no key inserted, no count changed, *)
(* whatever the palette and the metric.                                     *)
C1_AlphaThreshold ==
    [][(Visited /\ p'[4] < 128)
         => (img'[Len(img')] = <<255, 255, 255, 0>> /\ frequency' = frequency)]_vars

C1_Witness ==
    /\ pc = "quantize" /\ Len(img) >= 2
    /\ p[4] = 127
    /\ img[Len(img)] = <<255, 255, 255, 0>>
    /\ palette # <<>> /\ DOMAIN frequency # {}

(* C2: with a non-empty palette, a cell read with alpha >= 128 becomes the  *)
(* colour of the first palette entry at minimal distance (a later entry at  *)
(* equal distance never replaces it) with alpha 255, and the count of that  *)
(* entry's name, and of no other name, grows by one; for both metrics.      *)
C2_FirstNearest ==
    [][(Visited /\ p'[4] >= 128 /\ palette # <<>>)
         => LET e == palette[FirstNearest(Rgb3(p'))]
            IN  /\ img'[Len(img')] = <<e[2][1], e[2][2], e[2][3], 255>>
                /\ DOMAIN frequency' = DOMAIN frequency \cup {e[1]}
                /\ \A n \in DOMAIN frequency' :
                      frequency'[n] = Count(frequency, n) + (IF n = e[1] THEN 1 ELSE 0)]_vars

C2_Witness ==
    /\ pc = "quantize" /\ Len(img) = 1
    /\ p[4] >= 128
    /\ distance = "Lab"
    /\ Len(palette) = 2
    /\ palette[1][1] # palette[2][1] /\ palette[1][2] # palette[2][2]
    /\ Distance(palette[1][2], Rgb3(p)) = Distance(palette[2][2], Rgb3(p))
    /\ img[1] = to_rgba(palette[1][2])
    /\ frequency = (palette[1][1] :> 1)

(* C3: the sum of the counts of the frequency table equals the number of    *)
(* visited cells read with alpha >= 128, after every pixel and on return.   *)
C3_FrequencyConservation == SumCounts(frequency) = opaque

C3_Witness ==
    /\ pc = "returned"
    /\ opaque = 2 /\ Len(img) = 3
    /\ Cardinality(DOMAIN frequency) = 2

(* C4 as stated: with an empty palette a cell read with alpha >= 128 is     *)
(* left unchanged on all four channels and the frequency table stays empty. *)
C4_EmptyPaletteUnchanged ==
    (palette = <<>> /\ Len(img) > 0 /\ p[4] >= 128)
        => (img[Len(img)] = p /\ frequency = <<>>)

(* C4 amended: with an empty palette a cell read with alpha >= 128 keeps    *)
(* its R, G and B, gets alpha 255, and is counted under the empty name: the *)
(* table has the single key "" and its count is the number of such cells.   *)
C4_EmptyPaletteCounted ==
    (palette = <<>> /\ Len(img) > 0 /\ p[4] >= 128)
        => /\ img[Len(img)] = <<p[1], p[2], p[3], 255>>
           /\ DOMAIN frequency = {""}
           /\ frequency[""] = opaque

C4_Witness ==
    /\ palette = <<>> /\ pc = "returned"
    /\ Len(img) = 2 /\ p[4] = 128
    /\ img[2] = <<p[1], p[2], p[3], 255>>
    /\ frequency = ("" :> 2)

(* C7: when the density factor makes the grid's width or height zero,       *)
(* create_beads fails before any quantization: it never reaches the pixel   *)
(* loop and returns no frequency table and no grid.                         *)
C7_InvalidDimensions ==
    (pc \in {"quantize", "returned"}) => (width # 0 /\ height # 0)

---------------------------------------------------------------------------
(* Properties of output and show_pearls (SpecOut) *)

TiledRan == output_scale = <<>> /\ pc \in {"saved", "out_of_bounds"}

TiledExpected ==
    [w |-> beads.w * perla.w, h |-> beads.h * perla.h,
     px |-> [c \in Positions(beads.w * perla.w, beads.h * perla.h) |->
               mul_rgba(beads.px[<<c[1] \div perla.w, c[2] \div perla.h>>],
                        perla.px[<<c[1] % perla.w, c[2] % perla.h>>])]]

(* C5: in tiled mode, for every grid and every tile of at least 1 x 1       *)
(* pixels (tileW # tileH included), the output raster is gridW*tileW by     *)
(* gridH*tileH and its pixel (x, y) is mul_rgba(grid[x div tileW, y div     *)
(* tileH], tile[x mod tileW, y mod tileH]).                                 *)
C5_TiledCompositing == TiledRan => out = TiledExpected

(* C8: in flat mode with scale s >= 1 the output raster is gridW*s by       *)
(* gridH*s, its pixel (x, y) is grid cell (x div s, y div s) on all four    *)
(* channels, and the texture tile has not been opened.                      *)
C8_FlatScale ==
    (pc = "saved" /\ output_scale # <<>> /\ output_scale[1] >= 1)
        => LET s == output_scale[1]
           IN  /\ out.w = beads.w * s
               /\ out.h = beads.h * s
               /\ DOMAIN out.px = Positions(beads.w * s, beads.h * s)
               /\ \A c \in DOMAIN out.px :
                     out.px[c] = beads.px[<<c[1] \div s, c[2] \div s>>]
               /\ perla = NoRaster

C8_Witness ==
    /\ pc = "saved" /\ output_scale = <<2>>
    /\ beads.w = 2 /\ beads.h = 1
    /\ beads.px[<<0, 0>>] # beads.px[<<1, 0>>]
    /\ out.w = 4 /\ out.h = 2
    /\ out.px[<<1, 1>>] = beads.px[<<0, 0>>]
    /\ out.px[<<2, 1>>] = beads.px[<<1, 0>>]

(* C10: in tiled mode every output position reads the tile inside the tile  *)
(* and the grid inside the grid, so no out-of-bounds panic is reachable.    *)
C10_ReadsInBounds ==
    TiledRan
        => /\ \A c \in Positions(beads.w * perla.w, beads.h * perla.h) :
                 LET r == pearl_read(c[1], c[2], perla.w, perla.h)
                 IN  r.px < perla.w /\ r.py < perla.h /\ r.ox < beads.w /\ r.oy < beads.h
           /\ pc # "out_of_bounds"

---------------------------------------------------------------------------
(* Properties of mul_rgba (SpecMul) *)

(* C6: every channel of mul_rgba(a, b) is floor(a*b/255): the product fits  *)
(* the 16-bit intermediate, the result fits 0..255, a texture channel of    *)
(* 255 returns the cell channel and a texture channel of 0 returns 0.       *)
C6_MultiplyLaw ==
    pc = "done"
        => \A i \in 1..4 :
              /\ fa[i] * fb[i] < 65536
              /\ fres[i] = (fa[i] * fb[i]) \div 255
              /\ fres[i] \in 0..255
              /\ (fb[i] = 255 => fres[i] = fa[i])
              /\ (fb[i] = 0 => fres[i] = 0)

C6_Witness ==
    /\ pc = "done"
    /\ fa[1] = 255 /\ fb[1] = 255 /\ fres[1] = 255
    /\ fa[2] = 84 /\ fb[2] = 84 /\ fres[2] = 27

---------------------------------------------------------------------------
(* Properties of the distance functions (SpecDist) *)

(* C9: for both metrics distance(a, a) = 0, distance(a, b) = distance(b, a) *)
(* and distance(a, b) >= 0; distance_rgb is the sum over the three channels *)
(* of the squared channel difference.                                       *)
C9_DistanceLaws ==
    pc = "done"
        => /\ fres.aa = 0 /\ fres.bb = 0
           /\ fres.ab = fres.ba
           /\ fres.ab >= 0
           /\ (distance = "Rgb"
                 => fres.ab = (fa[1] - fb[1]) ^ 2 + (fa[2] - fb[2]) ^ 2 + (fa[3] - fb[3]) ^ 2)

C9_Witness ==
    /\ pc = "done" /\ distance = "Lab"
    /\ fa = <<0, 127, 255>> /\ fb = <<255, 128, 0>>
    /\ fres.ab = 5000 /\ fres.ba = 5000 /\ fres.aa = 0

====
